---- MODULE Spec2Model ----
(***************************************************************************)
(* Model of generate() in src/src/prisma-generator.ts: one run of the      *)
(* tRPC router generator over a parsed Prisma schema.  Strings that the    *)
(* code transforms (model names, operation keys, shield keys) are modelled *)
(* as sequences of one-character strings, so that replace, toLowerCase,    *)
(* pluralize and template concatenation are computed, not assumed.         *)
(***************************************************************************)
EXTENDS Integers, Sequences, FiniteSets, TLC

\* ------------------------------------------------------------------------
\* Bounds
\* ------------------------------------------------------------------------
MaxModels == 2

\* ------------------------------------------------------------------------
\* String literals of the source
\* ------------------------------------------------------------------------
User == <<"U", "s", "e", "r">>
Person == <<"P", "e", "r", "s", "o", "n">>
People == <<"P", "e", "o", "p", "l", "e">>
ModelNames == {User, Person, People}

findUnique == <<"f", "i", "n", "d", "U", "n", "i", "q", "u", "e">>
findUniqueOrThrow == <<"f", "i", "n", "d", "U", "n", "i", "q", "u", "e", "O", "r", "T", "h", "r", "o", "w">>
findMany == <<"f", "i", "n", "d", "M", "a", "n", "y">>
createOne == <<"c", "r", "e", "a", "t", "e", "O", "n", "e">>
create == <<"c", "r", "e", "a", "t", "e">>
update == <<"u", "p", "d", "a", "t", "e">>
delete == <<"d", "e", "l", "e", "t", "e">>
One == <<"O", "n", "e">>
OrThrow == <<"O", "r", "T", "h", "r", "o", "w">>
RouterSuffix == <<"R", "o", "u", "t", "e", "r">>
SubscriptionPrefix == <<"s", "u", "b", "s", "c", "r", "i", "p", "t", "i", "o", "n", ":">>

NoError == "none"
InvalidOptions == "Invalid options passed"
TypeErrorUndefined == "TypeError: Cannot read properties of undefined"
DelegateErrors == {"delegate error A", "delegate error B"}
PrismaClientJs == "prisma-client-js"

NoDoc == "no documentation"
HideDoc == "@@Gen.model(hide: true)"

\* ------------------------------------------------------------------------
\* Library string functions, computed on character sequences
\* ------------------------------------------------------------------------
UpperToLower ==
  [c \in {"A","B","C","D","E","F","G","H","I","J","K","L","M","N","O","P","Q","R","S","T","U","V","W","X","Y","Z"} |->
     CASE c = "A" -> "a" [] c = "B" -> "b" [] c = "C" -> "c" [] c = "D" -> "d"
       [] c = "E" -> "e" [] c = "F" -> "f" [] c = "G" -> "g" [] c = "H" -> "h"
       [] c = "I" -> "i" [] c = "J" -> "j" [] c = "K" -> "k" [] c = "L" -> "l"
       [] c = "M" -> "m" [] c = "N" -> "n" [] c = "O" -> "o" [] c = "P" -> "p"
       [] c = "Q" -> "q" [] c = "R" -> "r" [] c = "S" -> "s" [] c = "T" -> "t"
       [] c = "U" -> "u" [] c = "V" -> "v" [] c = "W" -> "w" [] c = "X" -> "x"
       [] c = "Y" -> "y" [] c = "Z" -> "z"]

\* String.prototype.toLowerCase
toLowerCase(s) ==
  [i \in 1..Len(s) |-> IF s[i] \in DOMAIN UpperToLower THEN UpperToLower[s[i]] ELSE s[i]]

\* String.prototype.indexOf, 1-based, 0 when absent
IndexOf(s, pat) ==
  LET hits == {i \in 1..(Len(s) - Len(pat) + 1) : SubSeq(s, i, i + Len(pat) - 1) = pat}
  IN IF hits = {} THEN 0 ELSE CHOOSE i \in hits : \A j \in hits : i <= j

\* String.prototype.replace with a string pattern: first occurrence only
Replace(s, pat, rep) ==
  LET i == IndexOf(s, pat)
  IN IF i = 0 THEN s
     ELSE SubSeq(s, 1, i - 1) \o rep \o SubSeq(s, i + Len(pat), Len(s))

EndsWith(s, suf) ==
  Len(suf) <= Len(s) /\ SubSeq(s, Len(s) - Len(suf) + 1, Len(s)) = suf

StartsWith(s, pre) ==
  Len(pre) <= Len(s) /\ SubSeq(s, 1, Len(pre)) = pre

\* pluralize(word): irregular person -> people, a plural stays as it is,
\* consonant + y -> ies, otherwise append s
pluralize(w) ==
  IF w = <<"p", "e", "r", "s", "o", "n">> THEN <<"p", "e", "o", "p", "l", "e">>
  ELSE IF w = <<"p", "e", "o", "p", "l", "e">> THEN w
  ELSE IF Len(w) >= 2 /\ w[Len(w)] = "y" /\ w[Len(w) - 1] \notin {"a", "e", "i", "o", "u"}
       THEN SubSeq(w, 1, Len(w) - 1) \o <<"i", "e", "s">>
  ELSE w \o <<"s">>

Range(s) == {s[i] : i \in 1..Len(s)}

\* ------------------------------------------------------------------------
\* Inputs: GeneratorOptions
\* ------------------------------------------------------------------------
\* Operation mappings a model may declare, in declaration order.  A null
\* name is the empty sequence.
OperationChoices(m) ==
  { << [key |-> findUnique, name |-> findUnique \o m],
       [key |-> findUniqueOrThrow, name |-> findUniqueOrThrow \o m],
       [key |-> findMany, name |-> findMany \o m],
       [key |-> createOne, name |-> createOne \o m] >>,
    << [key |-> findMany, name |-> <<>>] >>,
    << [key |-> createOne, name |-> createOne \o m],
       [key |-> findUniqueOrThrow, name |-> findUniqueOrThrow \o m] >> }

ModelActionKinds == {findUnique, findUniqueOrThrow, findMany, create}

InvalidConfig == [valid |-> FALSE, withZod |-> FALSE, withShield |-> FALSE, generateModelActions |-> {}]

ValidConfigs ==
  [valid : {TRUE}, withZod : BOOLEAN, withShield : BOOLEAN,
   generateModelActions : SUBSET ModelActionKinds]

\* Sequences of distinct model names, at most MaxModels long
ModelOrders ==
  UNION { {s \in [1..n -> ModelNames] : \A i, j \in 1..n : i # j => s[i] # s[j]} : n \in 0..MaxModels }

SchemasOf(order) ==
  { s \in [1..Len(order) ->
             UNION { [model : {m}, documentation : {NoDoc, HideDoc}, operations : OperationChoices(m)]
                     : m \in ModelNames }]
      : \A i \in 1..Len(order) : s[i].model = order[i] }

Schemas == UNION { SchemasOf(o) : o \in ModelOrders }

AllOptions ==
  [schema : Schemas,
   config : ValidConfigs \cup {InvalidConfig},
   otherGenerators : { <<"prisma-zod-generator">>, <<"prisma-zod-generator", PrismaClientJs>> }]

\* ------------------------------------------------------------------------
\* State
\* ------------------------------------------------------------------------
VARIABLES
  options,          \* the GeneratorOptions argument, immutable during the run
  pc,               \* position in generate()
  err,              \* the error generate() rejected with, NoError otherwise
  dirCreated,       \* fs.mkdir(outputDir) has run
  dirCleared,       \* number of removeDir(outputDir, true) calls
  zodResult,        \* outcomes of the PrismaZodGenerator calls
  shieldResult,     \* outcomes of the PrismaTrpcShieldGenerator calls
  hiddenModels,     \* filled by resolveModelsComments
  project,          \* source files created in the ts-morph project (paths)
  createRouter,     \* content of routers/helpers/createRouter.ts
  appRouter,        \* content of routers/index.ts
  modelRouter,      \* content of routers/<Model>.router.ts, per model
  shieldFile,       \* content of shield/shield.ts: the three buckets
  routerStatements, \* local array routerStatements
  modelActions,     \* local modelActions of the last loop iteration that computed it
  idx,              \* position of the router loop in modelOperations
  disk              \* paths written by project.save()

vars == <<options, pc, err, dirCreated, dirCleared, zodResult, shieldResult,
          hiddenModels, project, createRouter, appRouter, modelRouter,
          shieldFile, routerStatements, modelActions, idx, disk>>

modelOperations == options.schema
config == options.config

CreateRouterPath == [dir |-> "routers/helpers", base |-> <<"createRouter">>, ext |-> ".ts"]
AppRouterPath == [dir |-> "routers", base |-> <<"index">>, ext |-> ".ts"]
ModelRouterPath(model) == [dir |-> "routers", base |-> model, ext |-> ".router.ts"]
ShieldPath == [dir |-> "shield", base |-> <<"shield">>, ext |-> ".ts"]

EmptyRouterFile == [exportName |-> <<>>, imports |-> <<>>, procedures |-> <<>>]
EmptyShieldConfig == [query |-> <<>>, mutation |-> <<>>, subscription |-> <<>>]

Init ==
  /\ options \in AllOptions
  /\ pc = "parse"
  /\ err = NoError
  /\ dirCreated = FALSE
  /\ dirCleared = 0
  /\ zodResult = <<>>
  /\ shieldResult = <<>>
  /\ hiddenModels = <<>>
  /\ project = {}
  /\ createRouter = [imports |-> <<>>]
  /\ appRouter = [imports |-> <<>>, statements |-> <<>>]
  /\ modelRouter = [m \in ModelNames |-> EmptyRouterFile]
  /\ shieldFile = EmptyShieldConfig
  /\ routerStatements = <<>>
  /\ modelActions = <<>>
  /\ idx = 1
  /\ disk = {}

\* ------------------------------------------------------------------------
\* Pure steps of generate()
\* ------------------------------------------------------------------------
\* configSchema.safeParse(options.generator.config).success
SafeParseSuccess(cfg) == cfg.valid

AfterParseIgnoresFailure(success) == [pc |-> "mkdir", err |-> NoError]

\* if (!results.success) throw new Error('Invalid options passed')
AfterParse(success) ==
  IF success THEN [pc |-> "mkdir", err |-> NoError]
  ELSE [pc |-> "error", err |-> InvalidOptions]

InvokeZodAlways(cfg) == TRUE

InvokeZod(cfg) == cfg.withZod

InvokeShieldStarter(cfg) == cfg.withShield = TRUE

AwaitSwallowsRejection(outcome, next) == [pc |-> next, err |-> NoError]

\* await of a delegate: a rejection leaves generate() with the same error
Await(outcome, next) ==
  IF outcome = "ok" THEN [pc |-> next, err |-> NoError]
  ELSE [pc |-> "error", err |-> outcome]

\* options.otherGenerators.find(it => parseEnvValue(it.provider) === 'prisma-client-js')
HasClientProvider(generators) ==
  \E i \in 1..Len(generators) : generators[i] = PrismaClientJs

\* prismaClientProvider.previewFeatures on the result of find
AfterProviderLookup(found) ==
  IF found THEN [pc |-> "createRouter", err |-> NoError]
  ELSE [pc |-> "error", err |-> TypeErrorUndefined]

\* resolveModelsComments(models, hiddenModels): names of the models whose
\* documentation carries the hide marker, in schema order
resolveModelsComments(models) ==
  LET marked == SelectSeq(models, LAMBDA mo : mo.documentation = HideDoc)
  IN [i \in 1..Len(marked) |-> marked[i].model]

\* hiddenModels.includes(model)
IsHidden(hidden, model) == model \in Range(hidden)

ActionKindStripsOrThrow(opType) == Replace(Replace(opType, One, <<>>), OrThrow, <<>>)

\* opType.replace('One', '')
ActionKind(opType) == Replace(opType, One, <<>>)

\* Object.keys(operations).filter(opType => generateModelActions.includes(...))
FilterModelActions(operations, allowList) ==
  LET kept == SelectSeq(operations, LAMBDA op : ActionKind(op.key) \in allowList)
  IN [i \in 1..Len(kept) |-> kept[i].key]

SkipModelNever(actions) == FALSE

\* if (!modelActions.length) continue
SkipModel(actions) == Len(actions) = 0

\* operations[opType] || opType
OpNameWithModel(operations, opType) ==
  LET hit == SelectSeq(operations, LAMBDA op : op.key = opType)
  IN IF Len(hit) > 0 /\ hit[1].name # <<>> THEN hit[1].name ELSE opType

\* opType.replace('OrThrow', '')
BaseOpType(opType) == Replace(opType, OrThrow, <<>>)

\* one generateProcedure call per entry of modelActions
DispatchProcedures(model, operations, actions) ==
  [i \in 1..Len(actions) |->
     [name |-> OpNameWithModel(operations, actions[i]),
      input |-> <<BaseOpType(actions[i]), model>>,
      model |-> model,
      opType |-> actions[i],
      baseOpType |-> BaseOpType(actions[i])]]

subscriptionOperations == <<create, update, delete>>

\* one generateProcedure call per subscription event
SubscriptionProcedures(model) ==
  [i \in 1..Len(subscriptionOperations) |->
     [name |-> subscriptionOperations[i],
      input |-> <<>>,
      model |-> model,
      opType |-> SubscriptionPrefix \o subscriptionOperations[i],
      baseOpType |-> subscriptionOperations[i]]]

RouterProceduresSubscriptionsFirst(model, operations, actions) ==
  SubscriptionProcedures(model) \o DispatchProcedures(model, operations, actions)

\* the generateProcedure calls on one model router, in call order
RouterProcedures(model, operations, actions) ==
  DispatchProcedures(model, operations, actions) \o SubscriptionProcedures(model)

\* imports of one model router, in call order
RouterImports(model, actions, cfg) ==
  << [kind |-> "createRouter", names |-> <<>>] >>
  \o (IF cfg.withZod THEN << [kind |-> "schemas", names |-> actions] >> ELSE <<>>)
  \o << [kind |-> "@prisma/client", names |-> <<model>>],
        [kind |-> "@trpc/server/observable", names |-> <<>>],
        [kind |-> "emitter", names |-> <<>>] >>

RouterStatementKeyedByPlural(model, plural) ==
  [key |-> plural, value |-> plural \o RouterSuffix]

\* `${model.toLowerCase()}: ${plural}Router`
RouterStatement(model, plural) ==
  [key |-> toLowerCase(model), value |-> plural \o RouterSuffix]

PushRouterStatementLastWins(statements, statement) ==
  Append(SelectSeq(statements, LAMBDA st : st.value # statement.value), statement)

\* routerStatements.push(...)
PushRouterStatement(statements, statement) == Append(statements, statement)

\* generateRouterImport(appRouter, plural, model)
RouterImport(plural, model) == [plural |-> plural, model |-> model]

shieldQueryOperations ==
  << <<"a", "g", "g", "r", "e", "g", "a", "t", "e">>,
     <<"f", "i", "n", "d", "F", "i", "r", "s", "t">>,
     findMany,
     findUnique,
     <<"g", "r", "o", "u", "p", "B", "y">> >>

mutationOperationsWithoutUpsert ==
  << createOne,
     <<"d", "e", "l", "e", "t", "e", "M", "a", "n", "y">>,
     <<"d", "e", "l", "e", "t", "e", "O", "n", "e">>,
     <<"u", "p", "d", "a", "t", "e", "M", "a", "n", "y">>,
     <<"u", "p", "d", "a", "t", "e", "O", "n", "e">> >>

mutationOperations ==
  << createOne,
     <<"d", "e", "l", "e", "t", "e", "M", "a", "n", "y">>,
     <<"d", "e", "l", "e", "t", "e", "O", "n", "e">>,
     <<"u", "p", "d", "a", "t", "e", "M", "a", "n", "y">>,
     <<"u", "p", "d", "a", "t", "e", "O", "n", "e">>,
     <<"u", "p", "s", "e", "r", "t", "O", "n", "e">> >>

shieldSubscriptionOperations == <<create, update, delete>>

\* the models the shield loop writes entries for
ShieldModels(mos) == {mos[i].model : i \in 1..Len(mos)}

\* bucket[`${op}${model}`] = 'allow' for every op and every model of the loop
ShieldBucket(ops, models) ==
  [k \in {ops[i] \o m : i \in 1..Len(ops), m \in models} |-> "allow"]

BuildShieldConfig(mos) ==
  [query |-> ShieldBucket(shieldQueryOperations, ShieldModels(mos)),
   mutation |-> ShieldBucket(mutationOperations, ShieldModels(mos)),
   subscription |-> ShieldBucket(shieldSubscriptionOperations, ShieldModels(mos))]

\* ------------------------------------------------------------------------
\* Actions: generate(), one action per step between its effects
\* ------------------------------------------------------------------------
Parse ==
  /\ pc = "parse"
  /\ LET r == AfterParse(SafeParseSuccess(config))
     IN pc' = r.pc /\ err' = r.err
  /\ UNCHANGED <<options, dirCreated, dirCleared, zodResult, shieldResult,
                 hiddenModels, project, createRouter, appRouter, modelRouter,
                 shieldFile, routerStatements, modelActions, idx, disk>>

Mkdir ==
  /\ pc = "mkdir"
  /\ dirCreated' = TRUE
  /\ pc' = "removeDir"
  /\ UNCHANGED <<options, err, dirCleared, zodResult, shieldResult,
                 hiddenModels, project, createRouter, appRouter, modelRouter,
                 shieldFile, routerStatements, modelActions, idx, disk>>

RemoveDir ==
  /\ pc = "removeDir"
  /\ dirCleared' = dirCleared + 1
  /\ pc' = "zod"
  /\ UNCHANGED <<options, err, dirCreated, zodResult, shieldResult,
                 hiddenModels, project, createRouter, appRouter, modelRouter,
                 shieldFile, routerStatements, modelActions, idx, disk>>

ZodDelegate ==
  /\ pc = "zod"
  /\ InvokeZod(config)
  /\ \E outcome \in {"ok"} \cup DelegateErrors :
       /\ zodResult' = Append(zodResult, outcome)
       /\ LET r == Await(outcome, "shield")
          IN pc' = r.pc /\ err' = r.err
  /\ UNCHANGED <<options, dirCreated, dirCleared, shieldResult,
                 hiddenModels, project, createRouter, appRouter, modelRouter,
                 shieldFile, routerStatements, modelActions, idx, disk>>

ZodSkipped ==
  /\ pc = "zod"
  /\ ~InvokeZod(config)
  /\ pc' = "shield"
  /\ UNCHANGED <<options, err, dirCreated, dirCleared, zodResult, shieldResult,
                 hiddenModels, project, createRouter, appRouter, modelRouter,
                 shieldFile, routerStatements, modelActions, idx, disk>>

ShieldDelegate ==
  /\ pc = "shield"
  /\ InvokeShieldStarter(config)
  /\ \E outcome \in {"ok"} \cup DelegateErrors :
       /\ shieldResult' = Append(shieldResult, outcome)
       /\ LET r == Await(outcome, "getDMMF")
          IN pc' = r.pc /\ err' = r.err
  /\ UNCHANGED <<options, dirCreated, dirCleared, zodResult,
                 hiddenModels, project, createRouter, appRouter, modelRouter,
                 shieldFile, routerStatements, modelActions, idx, disk>>

ShieldSkipped ==
  /\ pc = "shield"
  /\ ~InvokeShieldStarter(config)
  /\ pc' = "getDMMF"
  /\ UNCHANGED <<options, err, dirCreated, dirCleared, zodResult, shieldResult,
                 hiddenModels, project, createRouter, appRouter, modelRouter,
                 shieldFile, routerStatements, modelActions, idx, disk>>

GetDMMF ==
  /\ pc = "getDMMF"
  /\ LET r == AfterProviderLookup(HasClientProvider(options.otherGenerators))
     IN /\ pc' = r.pc
        /\ err' = r.err
        /\ hiddenModels' = IF r.pc = "error" THEN hiddenModels
                           ELSE resolveModelsComments(modelOperations)
  /\ UNCHANGED <<options, dirCreated, dirCleared, zodResult, shieldResult,
                 project, createRouter, appRouter, modelRouter,
                 shieldFile, routerStatements, modelActions, idx, disk>>

CreateRouter ==
  /\ pc = "createRouter"
  /\ project' = project \cup {CreateRouterPath, AppRouterPath}
  /\ createRouter' = [imports |-> <<"trpc">> \o (IF config.withShield THEN <<"shield">> ELSE <<>>)]
  /\ appRouter' = [imports |-> <<>>, statements |-> <<>>]
  /\ routerStatements' = <<>>
  /\ idx' = 1
  /\ pc' = "routers"
  /\ UNCHANGED <<options, err, dirCreated, dirCleared, zodResult, shieldResult,
                 hiddenModels, modelRouter, shieldFile, modelActions, disk>>

RouterLoopHidden ==
  /\ pc = "routers"
  /\ idx <= Len(modelOperations)
  /\ IsHidden(hiddenModels, modelOperations[idx].model)
  /\ idx' = idx + 1
  /\ UNCHANGED <<options, pc, err, dirCreated, dirCleared, zodResult, shieldResult,
                 hiddenModels, project, createRouter, appRouter, modelRouter,
                 shieldFile, routerStatements, modelActions, disk>>

RouterLoopEmpty ==
  /\ pc = "routers"
  /\ idx <= Len(modelOperations)
  /\ ~IsHidden(hiddenModels, modelOperations[idx].model)
  /\ LET actions == FilterModelActions(modelOperations[idx].operations, config.generateModelActions)
     IN /\ SkipModel(actions)
        /\ modelActions' = actions
  /\ idx' = idx + 1
  /\ UNCHANGED <<options, pc, err, dirCreated, dirCleared, zodResult, shieldResult,
                 hiddenModels, project, createRouter, appRouter, modelRouter,
                 shieldFile, routerStatements, disk>>

RouterLoopGenerate ==
  /\ pc = "routers"
  /\ idx <= Len(modelOperations)
  /\ ~IsHidden(hiddenModels, modelOperations[idx].model)
  /\ LET model == modelOperations[idx].model
         operations == modelOperations[idx].operations
         actions == FilterModelActions(operations, config.generateModelActions)
         plural == pluralize(toLowerCase(model))
     IN /\ ~SkipModel(actions)
        /\ modelActions' = actions
        /\ appRouter' = [appRouter EXCEPT !.imports = Append(@, RouterImport(plural, model))]
        /\ project' = project \cup {ModelRouterPath(model)}
        /\ modelRouter' = [modelRouter EXCEPT ![model] =
                             [exportName |-> plural \o RouterSuffix,
                              imports |-> RouterImports(model, actions, config),
                              procedures |-> RouterProcedures(model, operations, actions)]]
        /\ routerStatements' = PushRouterStatement(routerStatements, RouterStatement(model, plural))
  /\ idx' = idx + 1
  /\ UNCHANGED <<options, pc, err, dirCreated, dirCleared, zodResult, shieldResult,
                 hiddenModels, createRouter, shieldFile, disk>>

RouterLoopExit ==
  /\ pc = "routers"
  /\ idx > Len(modelOperations)
  /\ pc' = "shieldConfig"
  /\ UNCHANGED <<options, err, dirCreated, dirCleared, zodResult, shieldResult,
                 hiddenModels, project, createRouter, appRouter, modelRouter,
                 shieldFile, routerStatements, modelActions, idx, disk>>

ShieldConfig ==
  /\ pc = "shieldConfig"
  /\ config.withShield
  /\ project' = project \cup {ShieldPath}
  /\ shieldFile' = BuildShieldConfig(modelOperations)
  /\ pc' = "save"
  /\ UNCHANGED <<options, err, dirCreated, dirCleared, zodResult, shieldResult,
                 hiddenModels, createRouter, appRouter, modelRouter,
                 routerStatements, modelActions, idx, disk>>

ShieldConfigSkipped ==
  /\ pc = "shieldConfig"
  /\ ~config.withShield
  /\ pc' = "save"
  /\ UNCHANGED <<options, err, dirCreated, dirCleared, zodResult, shieldResult,
                 hiddenModels, project, createRouter, appRouter, modelRouter,
                 shieldFile, routerStatements, modelActions, idx, disk>>

Save ==
  /\ pc = "save"
  /\ appRouter' = [appRouter EXCEPT !.statements = routerStatements]
  /\ disk' = disk \cup project
  /\ pc' = "done"
  /\ UNCHANGED <<options, err, dirCreated, dirCleared, zodResult, shieldResult,
                 hiddenModels, project, createRouter, modelRouter,
                 shieldFile, routerStatements, modelActions, idx>>

Next ==
  \/ Parse
  \/ Mkdir
  \/ RemoveDir
  \/ ZodDelegate
  \/ ZodSkipped
  \/ ShieldDelegate
  \/ ShieldSkipped
  \/ GetDMMF
  \/ CreateRouter
  \/ RouterLoopHidden
  \/ RouterLoopEmpty
  \/ RouterLoopGenerate
  \/ RouterLoopExit
  \/ ShieldConfig
  \/ ShieldConfigSkipped
  \/ Save

Spec == Init /\ [][Next]_vars

TypeOK ==
  /\ pc \in {"parse", "mkdir", "removeDir", "zod", "shield", "getDMMF", "createRouter",
             "routers", "shieldConfig", "save", "done", "error"}
  /\ idx \in 1..(MaxModels + 1)
  /\ dirCleared \in 0..1

\* ------------------------------------------------------------------------
\* Vocabulary of the properties, stated without the operators of the model
\* ------------------------------------------------------------------------
Positions == 1..Len(modelOperations)

ModelAt(i) == modelOperations[i].model

DeclaredKeys(i) == {modelOperations[i].operations[n].key : n \in 1..Len(modelOperations[i].operations)}

\* a key with a trailing "One" removed
StripTrailingOne(k) ==
  IF EndsWith(k, <<"O", "n", "e">>) THEN SubSeq(k, 1, Len(k) - 3) ELSE k

\* a key with a trailing "One" or "OrThrow" removed
StripTrailingOneOrThrow(k) ==
  IF EndsWith(k, <<"O", "n", "e">>) THEN SubSeq(k, 1, Len(k) - 3)
  ELSE IF EndsWith(k, <<"O", "r", "T", "h", "r", "o", "w">>) THEN SubSeq(k, 1, Len(k) - 7)
  ELSE k

PermittedKeys(i) == {k \in DeclaredKeys(i) : StripTrailingOne(k) \in config.generateModelActions}

Visible(i) == ModelAt(i) \notin Range(hiddenModels)

\* the router loop has finished with position i
Processed(i) ==
  \/ pc \in {"shieldConfig", "save", "done"}
  \/ pc = "routers" /\ idx > i

HasRouterFile(m) == ModelRouterPath(m) \in project

LowerCased(m) ==
  CASE m = User -> <<"u", "s", "e", "r">>
    [] m = Person -> <<"p", "e", "r", "s", "o", "n">>
    [] m = People -> <<"p", "e", "o", "p", "l", "e">>

PluralRouter(m) ==
  CASE m = User -> <<"u", "s", "e", "r", "s", "R", "o", "u", "t", "e", "r">>
    [] m = Person -> <<"p", "e", "o", "p", "l", "e", "R", "o", "u", "t", "e", "r">>
    [] m = People -> <<"p", "e", "o", "p", "l", "e", "R", "o", "u", "t", "e", "r">>

PluralOf(m) == SubSeq(PluralRouter(m), 1, Len(PluralRouter(m)) - 6)

IsSubscription(proc) == StartsWith(proc.opType, SubscriptionPrefix)

ImportsOf(m) == {n \in 1..Len(appRouter.imports) : appRouter.imports[n].model = m}

EntriesOf(m) == {n \in 1..Len(appRouter.statements) : appRouter.statements[n].key = LowerCased(m)}

ShieldKeysFor(bucket, m) == {k \in DOMAIN bucket : EndsWith(k, m)}

\* ------------------------------------------------------------------------
\* C1: after a complete run no generated artifact references a hidden
\* entity: no router file, no import and no entry in appRouter, and with
\* withShield no key of the policy's three buckets ends in its name.
\* ------------------------------------------------------------------------
C1_HiddenNeverReferenced ==
  pc = "done" =>
    \A i \in Positions :
      ~Visible(i) =>
        /\ ~HasRouterFile(ModelAt(i))
        /\ ImportsOf(ModelAt(i)) = {}
        /\ EntriesOf(ModelAt(i)) = {}
        /\ config.withShield =>
             /\ ShieldKeysFor(shieldFile.query, ModelAt(i)) = {}
             /\ ShieldKeysFor(shieldFile.mutation, ModelAt(i)) = {}
             /\ ShieldKeysFor(shieldFile.subscription, ModelAt(i)) = {}

\* ------------------------------------------------------------------------
\* C2: a visible entity with at least one permitted declared operation gets
\* a router file whose procedures are one dispatch procedure per resolved
\* operation, without duplicates, followed by exactly the three
\* subscription procedures create, update, delete.
\* ------------------------------------------------------------------------
C2_RouterFileProcedures ==
  \A i \in Positions :
    (Processed(i) /\ Visible(i) /\ PermittedKeys(i) # {}) =>
      /\ HasRouterFile(ModelAt(i))
      /\ LET procs == modelRouter[ModelAt(i)].procedures
             n == Cardinality(PermittedKeys(i))
         IN /\ Len(procs) = n + 3
            /\ {procs[j].opType : j \in 1..n} = PermittedKeys(i)
            /\ \A j \in 1..n : ~IsSubscription(procs[j])
            /\ \A j \in (n + 1)..(n + 3) : IsSubscription(procs[j])
            /\ <<procs[n + 1].name, procs[n + 2].name, procs[n + 3].name>>
                 = << <<"c", "r", "e", "a", "t", "e">>,
                      <<"u", "p", "d", "a", "t", "e">>,
                      <<"d", "e", "l", "e", "t", "e">> >>

C2_Witness ==
  /\ pc = "done"
  /\ \E i \in Positions :
       /\ Visible(i)
       /\ Cardinality(PermittedKeys(i)) >= 2
       /\ Cardinality(PermittedKeys(i)) < Cardinality(DeclaredKeys(i))
       /\ Len(modelRouter[ModelAt(i)].procedures) = Cardinality(PermittedKeys(i)) + 3

\* ------------------------------------------------------------------------
\* C3 (as stated): the resolved list holds a declared key exactly when the
\* key with a trailing "One" or "OrThrow" removed is in generateModelActions,
\* holds nothing the entity does not declare, and keeps declaration order.
\* ------------------------------------------------------------------------
LastFiltered == idx - 1

KeyPosition(i, k) ==
  CHOOSE n \in 1..Len(modelOperations[i].operations) : modelOperations[i].operations[n].key = k

ResolvedInDeclarationOrder(i) ==
  /\ Range(modelActions) \subseteq DeclaredKeys(i)
  /\ \A a, b \in 1..Len(modelActions) :
       a < b => KeyPosition(i, modelActions[a]) < KeyPosition(i, modelActions[b])

C3_ResolvedStripsOneAndOrThrow ==
  (idx > 1 /\ Visible(LastFiltered)) =>
    /\ \A k \in DeclaredKeys(LastFiltered) :
         k \in Range(modelActions) <=> StripTrailingOneOrThrow(k) \in config.generateModelActions
    /\ ResolvedInDeclarationOrder(LastFiltered)

\* C3 (amended): the resolved list holds a declared key exactly when the key
\* with a trailing "One" removed is in generateModelActions; an "OrThrow"
\* key is resolved only when generateModelActions names that key itself.
\* Nothing undeclared appears and declaration order is kept.
C3_ResolvedStripsOneOnly ==
  (idx > 1 /\ Visible(LastFiltered)) =>
    /\ \A k \in DeclaredKeys(LastFiltered) :
         k \in Range(modelActions) <=> StripTrailingOne(k) \in config.generateModelActions
    /\ ResolvedInDeclarationOrder(LastFiltered)

C3_Witness ==
  /\ idx > 1
  /\ Visible(LastFiltered)
  /\ findUniqueOrThrow \in DeclaredKeys(LastFiltered)
  /\ findUnique \in config.generateModelActions
  /\ findUniqueOrThrow \notin config.generateModelActions
  /\ create \in config.generateModelActions
  /\ createOne \in Range(modelActions)
  /\ findUniqueOrThrow \notin Range(modelActions)

CanonicalQuery ==
  { <<"a", "g", "g", "r", "e", "g", "a", "t", "e">>,
    <<"f", "i", "n", "d", "F", "i", "r", "s", "t">>,
    <<"f", "i", "n", "d", "M", "a", "n", "y">>,
    <<"f", "i", "n", "d", "U", "n", "i", "q", "u", "e">>,
    <<"g", "r", "o", "u", "p", "B", "y">> }

CanonicalMutation ==
  { <<"c", "r", "e", "a", "t", "e", "O", "n", "e">>,
    <<"d", "e", "l", "e", "t", "e", "M", "a", "n", "y">>,
    <<"d", "e", "l", "e", "t", "e", "O", "n", "e">>,
    <<"u", "p", "d", "a", "t", "e", "M", "a", "n", "y">>,
    <<"u", "p", "d", "a", "t", "e", "O", "n", "e">>,
    <<"u", "p", "s", "e", "r", "t", "O", "n", "e">> }

CanonicalSubscription ==
  { <<"c", "r", "e", "a", "t", "e">>, <<"u", "p", "d", "a", "t", "e">>, <<"d", "e", "l", "e", "t", "e">> }

AllAllow(bucket) == \A k \in DOMAIN bucket : bucket[k] = "allow"

C5_PolicySuperset ==
  /\ ~config.withShield => (ShieldPath \notin project /\ ShieldPath \notin disk)
  /\ (pc \in {"save", "done"} /\ config.withShield) =>
       /\ ShieldPath \in project
       /\ AllAllow(shieldFile.query) /\ AllAllow(shieldFile.mutation) /\ AllAllow(shieldFile.subscription)
       /\ \A i \in Positions :
            Visible(i) =>
              /\ {op \o ModelAt(i) : op \in CanonicalQuery} \subseteq DOMAIN shieldFile.query
              /\ ShieldKeysFor(shieldFile.mutation, ModelAt(i))
                   = {op \o ModelAt(i) : op \in CanonicalMutation}
              /\ {op \o ModelAt(i) : op \in CanonicalSubscription} \subseteq DOMAIN shieldFile.subscription

C5_Witness ==
  /\ pc = "done"
  /\ config.withShield
  /\ ShieldPath \in disk
  /\ \E i \in Positions :
       /\ Visible(i) /\ ~HasRouterFile(ModelAt(i)) /\ DeclaredKeys(i) # {}
       /\ (createOne \o ModelAt(i)) \in DOMAIN shieldFile.mutation

\* ------------------------------------------------------------------------
\* C6: a configuration that fails validation makes generate abort with the
\* single error 'Invalid options passed' before any other effect: no mkdir,
\* no clearing, no delegate call, no source file, no save.
\* ------------------------------------------------------------------------
NoEffect ==
  /\ ~dirCreated
  /\ dirCleared = 0
  /\ zodResult = <<>>
  /\ shieldResult = <<>>
  /\ project = {}
  /\ disk = {}

C6_InvalidConfigAborts ==
  ~config.valid =>
    /\ pc \in {"parse", "error"}
    /\ pc = "error" => err = "Invalid options passed"
    /\ NoEffect

C6_Witness ==
  /\ ~config.valid
  /\ pc = "error"
  /\ err = "Invalid options passed"
  /\ Len(modelOperations) > 0

\* ------------------------------------------------------------------------
\* C7: generation is all-or-nothing.  A throwing delegate or a missing
\* prisma-client-js generator ends the run in the error state with that
\* error, nothing runs afterwards, and the core files reach the disk only
\* through the one project.save of a run in which every stage succeeded.
\* ------------------------------------------------------------------------
Failed(results) == \E n \in 1..Len(results) : results[n] # "ok"

C7_StateAllOrNothing ==
  /\ Len(zodResult) <= 1 /\ Len(shieldResult) <= 1
  /\ Failed(zodResult) =>
       (pc = "error" /\ err = zodResult[1] /\ shieldResult = <<>> /\ project = {})
  /\ Failed(shieldResult) =>
       (pc = "error" /\ err = shieldResult[1] /\ project = {})
  /\ (config.valid /\ \A n \in 1..Len(options.otherGenerators) :
                        options.otherGenerators[n] # "prisma-client-js") =>
       (pc \notin {"createRouter", "routers", "shieldConfig", "save", "done"} /\ project = {})
  /\ pc = "error" => (err # "none" /\ project = {} /\ disk = {})
  /\ disk # {} =>
       (pc = "done" /\ err = "none" /\ disk = project
        /\ ~Failed(zodResult) /\ ~Failed(shieldResult))

C7_AllOrNothing ==
  /\ []C7_StateAllOrNothing
  /\ [][/\ pc # "error"
        /\ pc # "done"
        /\ disk' # disk => (pc = "save" /\ disk = {})]_vars

C7_Witness ==
  /\ pc = "error"
  /\ zodResult = <<"ok">>
  /\ Failed(shieldResult)
  /\ err = shieldResult[1]

\* ------------------------------------------------------------------------
\* C8: after a complete run appRouter holds exactly one import and one entry
\* per entity that got a router file and none for any other; an entry maps
\* the lower-cased name to <plural>Router; entries follow the declaration
\* order of the model operations.
\* ------------------------------------------------------------------------
RoutedModels ==
  LET routed == SelectSeq(modelOperations, LAMBDA mo : HasRouterFile(mo.model))
  IN [n \in 1..Len(routed) |-> routed[n].model]

C8_AggregateMatchesRouterFiles ==
  pc = "done" =>
    /\ Len(appRouter.imports) = Len(RoutedModels)
    /\ Len(appRouter.statements) = Len(RoutedModels)
    /\ \A n \in 1..Len(RoutedModels) :
         /\ appRouter.imports[n] = [plural |-> PluralOf(RoutedModels[n]), model |-> RoutedModels[n]]
         /\ appRouter.statements[n] =
              [key |-> LowerCased(RoutedModels[n]), value |-> PluralRouter(RoutedModels[n])]
         /\ modelRouter[RoutedModels[n]].exportName = PluralRouter(RoutedModels[n])

C8_Witness ==
  /\ pc = "done"
  /\ Len(appRouter.statements) >= 1
  /\ Len(appRouter.statements) < Len(modelOperations)
  /\ \E i \in Positions : Visible(i) /\ ~HasRouterFile(ModelAt(i))

\* ------------------------------------------------------------------------
\* C9: the stages are ordered.  The directory is cleared once, before any
\* delegate call and never after; with withZod the validation delegate has
\* completed before any source file is created; with withShield the policy
\* starter has completed before the policy file is created; the bootstrap
\* file is created once and before every model router; a delegate is only
\* invoked when its option is enabled.
\* ------------------------------------------------------------------------
C9_StateOrder ==
  /\ dirCleared <= 1
  /\ (zodResult # <<>> \/ shieldResult # <<>>) => (dirCreated /\ dirCleared = 1)
  /\ (config.withZod /\ project # {}) => zodResult = <<"ok">>
  /\ (config.withShield /\ ShieldPath \in project) => shieldResult = <<"ok">>
  /\ \A m \in ModelNames : HasRouterFile(m) => CreateRouterPath \in project
  /\ zodResult # <<>> => config.withZod
  /\ shieldResult # <<>> => config.withShield

C9_StageOrder ==
  /\ []C9_StateOrder
  /\ [][/\ dirCleared' # dirCleared => (dirCleared = 0 /\ zodResult = <<>> /\ shieldResult = <<>>)
        /\ CreateRouterPath \in project => (CreateRouterPath \in project' /\ createRouter' = createRouter)
        /\ (CreateRouterPath \notin project /\ CreateRouterPath \in project') =>
             \A m \in ModelNames : ~HasRouterFile(m)]_vars

C9_Witness ==
  /\ pc = "done"
  /\ config.withZod /\ config.withShield
  /\ zodResult = <<"ok">> /\ shieldResult = <<"ok">>
  /\ dirCleared = 1
  /\ ShieldPath \in project
  /\ \E m \in ModelNames : HasRouterFile(m)

\* ------------------------------------------------------------------------
\* C10 (as stated): when two visible entities with allowed operations share
\* a pluralized collection key, no error is raised and the last-declared
\* one wins: appRouter ends with a single router for that key, the one of
\* the entity declared last.
\* ------------------------------------------------------------------------
Colliding(i, j) ==
  /\ i < j
  /\ Visible(i) /\ Visible(j)
  /\ PermittedKeys(i) # {} /\ PermittedKeys(j) # {}
  /\ PluralOf(ModelAt(i)) = PluralOf(ModelAt(j))

LastColliding(j) == \A n \in Positions : ~Colliding(j, n)

C10_LastDeclaredWins ==
  pc = "done" =>
    \A i, j \in Positions :
      (Colliding(i, j) /\ LastColliding(j)) =>
        /\ err = "none"
        /\ {n \in 1..Len(appRouter.imports) : appRouter.imports[n].plural = PluralOf(ModelAt(j))}
             = ImportsOf(ModelAt(j))
        /\ {n \in 1..Len(appRouter.statements) : appRouter.statements[n].value = PluralRouter(ModelAt(j))}
             = EntriesOf(ModelAt(j))

\* C10 (amended): the collision is not detected (no error is raised) and
\* nothing is dropped or overwritten: each of the colliding entities keeps
\* its own router file, its own import and its own entry under its own
\* lower-cased name, and the router files export, and the entries refer to,
\* the same identifier <plural>Router.
C10_CollisionKeepsBoth ==
  \A i, j \in Positions :
    Colliding(i, j) =>
      /\ pc \in {"routers", "shieldConfig", "save", "done"} => err = "none"
      /\ pc = "done" =>
           /\ ModelRouterPath(ModelAt(i)) \in disk /\ ModelRouterPath(ModelAt(j)) \in disk
           /\ Cardinality(ImportsOf(ModelAt(i))) = 1 /\ Cardinality(ImportsOf(ModelAt(j))) = 1
           /\ Cardinality(EntriesOf(ModelAt(i))) = 1 /\ Cardinality(EntriesOf(ModelAt(j))) = 1
           /\ \A a \in EntriesOf(ModelAt(i)), b \in EntriesOf(ModelAt(j)) :
                a < b /\ appRouter.statements[a].value = appRouter.statements[b].value
           /\ modelRouter[ModelAt(i)].exportName = modelRouter[ModelAt(j)].exportName

C10_Witness ==
  /\ pc = "done"
  /\ err = "none"
  /\ \E i, j \in Positions :
       /\ Colliding(i, j)
       /\ HasRouterFile(ModelAt(i)) /\ HasRouterFile(ModelAt(j))
       /\ Len(appRouter.statements) = 2

====
